---------------------------- MODULE Spec2Model ----------------------------
(***************************************************************************)
(* Minesweeper (src/models.py): the Grid state machine (mine placement,    *)
(* adjacency counting, recursive discovery, flagging, win/loss detection)  *)
(* and the part of GameGUI.display that drives it (the mouse handler, the  *)
(* win check after a left click, the restart key).                         *)
(*                                                                         *)
(* Cells keep the integer encoding of the source:                          *)
(*   -1 undiscovered, -2 flagged, -3 flagged but no bomb, 0..8 discovered  *)
(*   with that many bombs around, 9 discovered bomb, 10 the bomb that made *)
(*   the player lose.                                                      *)
(***************************************************************************)
EXTENDS Integers, Sequences, FiniteSets, TLC

VARIABLES
    pc,            \* where the program is: "init", "place_bombs", "start_game", "display"
    grid_height,   \* GameGUI.grid_height / Grid.grid_height
    grid_width,    \* GameGUI.grid_width / Grid.grid_width
    bombs_nb,      \* GameGUI.bombs_nb / Grid.bombs_nb
    attrs,         \* the attributes Grid.__init__ has set on the Grid object
    bombs,         \* Grid.bombs (a list without duplicates, used for membership only)
    placed_bombs,  \* local counter of Grid.place_bombs
    random_cell,   \* local of Grid.place_bombs: the last cell drawn
    grid,          \* Grid.grid: cell -> integer code
    game_ended,    \* Grid.game_ended
    error,         \* the exception that ended the program, "none" while it runs
    stack,         \* the frames of the running discover_cell calls, innermost last
    called         \* the board and the cell the running left click started from

vars == <<pc, grid_height, grid_width, bombs_nb, attrs, bombs, placed_bombs,
          random_cell, grid, game_ended, error, stack, called>>

\* What a step outside discover_cell leaves alone.
callvars == <<stack, called>>

---------------------------------------------------------------------------
(* Bounds of the model *)

MaxHeight == 2
MaxWidth == 3
MaxCells == 6
MaxBombs == 2

(* Cell codes of the source *)

UNDISCOVERED == -1
FLAGGED == -2
FLAGGED_NO_BOMB == -3
BOMB == 9
LOSING_BOMB == 10

(* Pixel geometry of GameGUI *)

CELL_SIZE == 20
GRID_X == 20
GRID_Y == 70

LEFT_BUTTON == 1
RIGHT_BUTTON == 3

NoCell == <<-1, -1>>

\* No left click is being handled.
NoCall == [grid |-> << >>, game_ended |-> FALSE, cell |-> NoCell]

AllAttrs == {"grid_height", "grid_width", "bombs_nb", "bombs", "grid", "game_ended"}

---------------------------------------------------------------------------
(* Grid helpers *)

Cells == (0 .. grid_height - 1) \X (0 .. grid_width - 1)

\* get_neighbours with the four diagonal cells forgotten.
get_neighbours_no_diagonals(cell_coordinates) ==
    LET row == cell_coordinates[1]
        col == cell_coordinates[2]
        neighbours == << <<row - 1, col>>, <<row, col + 1>>, <<row + 1, col>>,
                         <<row, col - 1>> >>
        InGrid(cell) == /\ 0 <= cell[1] /\ cell[1] < grid_height
                        /\ 0 <= cell[2] /\ cell[2] < grid_width
    IN SelectSeq(neighbours, InGrid)

\* Grid.get_neighbours: the eight surrounding cells in the source's order,
\* clipped to the grid.
get_neighbours(cell_coordinates) ==
    LET row == cell_coordinates[1]
        col == cell_coordinates[2]
        neighbours == << <<row - 1, col - 1>>, <<row - 1, col>>, <<row - 1, col + 1>>,
                         <<row, col + 1>>, <<row + 1, col + 1>>, <<row + 1, col>>,
                         <<row + 1, col - 1>>, <<row, col - 1>> >>
        InGrid(cell) == /\ 0 <= cell[1] /\ cell[1] < grid_height
                        /\ 0 <= cell[2] /\ cell[2] < grid_width
    IN SelectSeq(neighbours, InGrid)

\* check_for_bombs without its first test: a bomb is counted like any cell.
check_for_bombs_count_only(cell_coordinates) ==
    LET neighbours == get_neighbours(cell_coordinates)
    IN Cardinality({i \in DOMAIN neighbours : neighbours[i] \in bombs})

\* Grid.check_for_bombs: 9 for a bomb, else the number of bombs around.
check_for_bombs(cell_coordinates) ==
    IF cell_coordinates \in bombs
    THEN BOMB
    ELSE LET neighbours == get_neighbours(cell_coordinates)
         IN Cardinality({i \in DOMAIN neighbours : neighbours[i] \in bombs})

\* discover_all_non_flagged_bombs without its elif branch: flagged cells
\* that are no bomb are left as they are.
discover_all_non_flagged_bombs_bombs_only(g) ==
    [c \in DOMAIN g |-> IF c \in bombs /\ g[c] # FLAGGED THEN BOMB ELSE g[c]]

\* Grid.discover_all_non_flagged_bombs: every bomb that is not flagged shows
\* as 9; every flagged cell that is no bomb becomes -3.
discover_all_non_flagged_bombs(g) ==
    [c \in DOMAIN g |->
        IF c \in bombs
        THEN (IF g[c] # FLAGGED THEN BOMB ELSE g[c])
        ELSE (IF g[c] = FLAGGED THEN FLAGGED_NO_BOMB ELSE g[c])]

RECURSIVE discover_cell(_, _)
RECURSIVE discover_neighbours(_, _)

\* The loop of discover_cell leaving after its first iteration.
discover_neighbours_first_only(st, undiscovered_neighbours) ==
    IF undiscovered_neighbours = << >>
    THEN st
    ELSE discover_cell(st, Head(undiscovered_neighbours))

\* The loop of Grid.discover_cell over undiscovered_neighbours (a list fixed
\* before the loop starts).
discover_neighbours(st, undiscovered_neighbours) ==
    IF undiscovered_neighbours = << >>
    THEN st
    ELSE discover_neighbours(discover_cell(st, Head(undiscovered_neighbours)),
                             Tail(undiscovered_neighbours))

\* discover_cell without its test for a flagged cell.
discover_cell_no_flag_test(st, cell_coordinates) ==
    LET entered == [st EXCEPT !.calls = @ + 1]
        current_cell_bombs == check_for_bombs(cell_coordinates)
        s1 == [entered EXCEPT !.grid[cell_coordinates] = current_cell_bombs]
        s2 == IF current_cell_bombs = BOMB
              THEN [s1 EXCEPT
                      !.grid = [discover_all_non_flagged_bombs(s1.grid)
                                   EXCEPT ![cell_coordinates] = LOSING_BOMB],
                      !.game_ended = TRUE]
              ELSE s1
    IN IF current_cell_bombs = 0
       THEN LET neighbours == get_neighbours(cell_coordinates)
                IsUndiscovered(neighbour) == s2.grid[neighbour] = UNDISCOVERED
            IN discover_neighbours(s2, SelectSeq(neighbours, IsUndiscovered))
       ELSE s2

\* Grid.discover_cell on st = [grid, game_ended, calls]; calls counts the
\* invocations of discover_cell.
discover_cell(st, cell_coordinates) ==
    LET entered == [st EXCEPT !.calls = @ + 1]
    IN IF st.grid[cell_coordinates] = FLAGGED
       THEN entered
       ELSE LET current_cell_bombs == check_for_bombs(cell_coordinates)
                s1 == [entered EXCEPT !.grid[cell_coordinates] = current_cell_bombs]
                s2 == IF current_cell_bombs = BOMB
                      THEN [s1 EXCEPT
                              !.grid = [discover_all_non_flagged_bombs(s1.grid)
                                           EXCEPT ![cell_coordinates] = LOSING_BOMB],
                              !.game_ended = TRUE]
                      ELSE s1
            IN IF current_cell_bombs = 0
               THEN LET neighbours == get_neighbours(cell_coordinates)
                        IsUndiscovered(neighbour) == s2.grid[neighbour] = UNDISCOVERED
                    IN discover_neighbours(s2, SelectSeq(neighbours, IsUndiscovered))
               ELSE s2

\* flag_non_flagged_bombs flagging nothing.
flag_non_flagged_bombs_skipped(g) == g

\* Grid.flag_non_flagged_bombs
flag_non_flagged_bombs(g) ==
    [c \in DOMAIN g |-> IF c \in bombs /\ g[c] = UNDISCOVERED THEN FLAGGED ELSE g[c]]

\* flag_cell without its second test: a flag once set is never taken off.
flag_cell_never_unflags(g, cell_coordinates) ==
    IF g[cell_coordinates] = UNDISCOVERED
    THEN [grid |-> [g EXCEPT ![cell_coordinates] = FLAGGED], result |-> TRUE]
    ELSE [grid |-> g, result |-> FALSE]

\* Grid.flag_cell on a grid: the new grid and the returned boolean.
flag_cell(g, cell_coordinates) ==
    IF g[cell_coordinates] = UNDISCOVERED
    THEN [grid |-> [g EXCEPT ![cell_coordinates] = FLAGGED], result |-> TRUE]
    ELSE IF g[cell_coordinates] = FLAGGED
    THEN [grid |-> [g EXCEPT ![cell_coordinates] = UNDISCOVERED], result |-> TRUE]
    ELSE [grid |-> g, result |-> FALSE]

\* Grid.has_discovered_all_non_bombs_cells
has_discovered_all_non_bombs_cells(g) ==
    Cardinality({c \in DOMAIN g : g[c] < 0}) = bombs_nb

\* get_remaining_non_flagged_bombs_nb without max(0, ...).
get_remaining_non_flagged_bombs_nb_unclamped(g) ==
    bombs_nb - Cardinality({c \in DOMAIN g : g[c] = FLAGGED})

\* Grid.get_remaining_non_flagged_bombs_nb
get_remaining_non_flagged_bombs_nb(g) ==
    LET flags == Cardinality({c \in DOMAIN g : g[c] = FLAGGED})
    IN IF bombs_nb - flags > 0 THEN bombs_nb - flags ELSE 0

---------------------------------------------------------------------------
(* GameGUI.display: the handling of one click *)

\* The left-click branch: discover_cell, then the win check.
left_click(st, cell) ==
    LET d == discover_cell([grid |-> st.grid, game_ended |-> st.game_ended, calls |-> 0],
                           cell)
    IN IF has_discovered_all_non_bombs_cells(d.grid)
       THEN [st EXCEPT !.grid = flag_non_flagged_bombs(d.grid), !.game_ended = TRUE]
       ELSE [st EXCEPT !.grid = d.grid, !.game_ended = d.game_ended]

\* The right-click branch: flag_cell.
right_click(st, cell) ==
    [st EXCEPT !.grid = flag_cell(st.grid, cell).grid]

\* The area test of the handler: the pixels it takes for a click on the grid.
in_grid_area(x, y) ==
    /\ GRID_X <= x /\ x <= GRID_X + CELL_SIZE * grid_width
    /\ GRID_Y <= y /\ y <= GRID_Y + CELL_SIZE * grid_height

\* The column and the row the handler computes from a pixel.
cell_x(x) == (x - GRID_X) \div CELL_SIZE

cell_y(y) == (y - GRID_Y) \div CELL_SIZE

\* The body of the MOUSEBUTTONDOWN branch for a click at pixel (x, y) on
\* st = [grid, game_ended, error]. Indexing the numpy grid with a row or
\* column beyond its shape raises IndexError before anything is written.
handle_click(st, x, y, button) ==
    IF in_grid_area(x, y)
    THEN LET cell == <<cell_y(y), cell_x(x)>>
         IN IF button \in {LEFT_BUTTON, RIGHT_BUTTON} /\ cell \notin Cells
            THEN [st EXCEPT !.error = "IndexError"]
            ELSE IF button = LEFT_BUTTON THEN left_click(st, cell)
            ELSE IF button = RIGHT_BUTTON THEN right_click(st, cell)
            ELSE st
    ELSE st

\* The event handled although the round has ended.
mouse_button_down_unguarded(st, x, y, button) == handle_click(st, x, y, button)

\* One MOUSEBUTTONDOWN event: ignored once the round has ended.
mouse_button_down(st, x, y, button) ==
    IF ~ st.game_ended
    THEN handle_click(st, x, y, button)
    ELSE st

\* The background colour GameGUI.draw_menu_bar chooses for st: green (the
\* round is won), red (lost) or grey (in progress).
draw_menu_bar(st) ==
    IF st.game_ended
    THEN (IF has_discovered_all_non_bombs_cells(st.grid) THEN "Won" ELSE "Lost")
    ELSE "InProgress"

---------------------------------------------------------------------------
(* Inputs *)

Heights == 1 .. MaxHeight
Widths == 1 .. MaxWidth
BombsNbs == 0 .. MaxBombs

\* Mouse positions: one pixel on each side outside the grid area, the first
\* pixel of every cell, and the last pixel the area test accepts.
MouseXs ==
    {GRID_X - 1, GRID_X + CELL_SIZE * grid_width + 1}
    \cup {GRID_X + CELL_SIZE * k : k \in 0 .. grid_width}

MouseYs ==
    {GRID_Y - 1, GRID_Y + CELL_SIZE * grid_height + 1}
    \cup {GRID_Y + CELL_SIZE * k : k \in 0 .. grid_height}

Buttons == {LEFT_BUTTON, RIGHT_BUTTON}

---------------------------------------------------------------------------
(* Actions *)

Init ==
    /\ pc = "init"
    /\ grid_height = 0
    /\ grid_width = 0
    /\ bombs_nb = 0
    /\ attrs = {}
    /\ bombs = {}
    /\ placed_bombs = 0
    /\ random_cell = NoCell
    /\ grid = << >>
    /\ game_ended = FALSE
    /\ error = "none"
    /\ stack = << >>
    /\ called = NoCall

\* Grid.__init__ up to the call of place_bombs, or its else branch.
GridInit(h, w, m) ==
    IF ~ (m > h * w)
    THEN /\ attrs' = {"grid_height", "grid_width", "bombs_nb", "bombs"}
         /\ bombs' = {}
         /\ placed_bombs' = 0
         /\ grid' = << >>
         /\ pc' = "place_bombs"
    ELSE /\ attrs' = {"grid"}
         /\ grid' = << >>
         /\ bombs' = {}
         /\ placed_bombs' = 0
         /\ pc' = "start_game"

\* Game.start_game / GameGUI.start_game: the dimensions are chosen and a Grid
\* is constructed.
StartGame ==
    /\ pc = "init"
    /\ error = "none"
    /\ \E h \in Heights, w \in Widths, m \in BombsNbs :
          /\ h * w <= MaxCells
          /\ grid_height' = h
          /\ grid_width' = w
          /\ bombs_nb' = m
          /\ GridInit(h, w, m)
    /\ UNCHANGED <<random_cell, game_ended, error>>
    /\ UNCHANGED callvars

\* The loop of place_bombs without its test for a cell drawn before.
PlaceBombStepNoDuplicateTest ==
    /\ pc = "place_bombs"
    /\ error = "none"
    /\ placed_bombs < bombs_nb
    /\ \E cell \in Cells :
          /\ random_cell' = cell
          /\ bombs' = bombs \cup {cell}
          /\ placed_bombs' = placed_bombs + 1
    /\ UNCHANGED <<pc, grid_height, grid_width, bombs_nb, attrs, grid, game_ended, error>>
    /\ UNCHANGED callvars

\* One iteration of the loop of Grid.place_bombs.
PlaceBombStep ==
    /\ pc = "place_bombs"
    /\ error = "none"
    /\ placed_bombs < bombs_nb
    /\ \E cell \in Cells :
          /\ random_cell' = cell
          /\ IF cell \notin bombs
             THEN /\ bombs' = bombs \cup {cell}
                  /\ placed_bombs' = placed_bombs + 1
             ELSE UNCHANGED <<bombs, placed_bombs>>
    /\ UNCHANGED <<pc, grid_height, grid_width, bombs_nb, attrs, grid, game_ended, error>>
    /\ UNCHANGED callvars

\* place_bombs returns; Grid.__init__ fills the grid and clears game_ended.
PlaceBombsDone ==
    /\ pc = "place_bombs"
    /\ error = "none"
    /\ ~ (placed_bombs < bombs_nb)
    /\ grid' = [c \in Cells |-> UNDISCOVERED]
    /\ game_ended' = FALSE
    /\ attrs' = AllAttrs
    /\ random_cell' = NoCell
    /\ pc' = "start_game"
    /\ UNCHANGED <<grid_height, grid_width, bombs_nb, bombs, placed_bombs, error>>
    /\ UNCHANGED callvars

\* GameGUI.display up to its event loop: draw_grid reads grid.grid[i, j],
\* which a list refuses (TypeError).
Display ==
    /\ pc = "start_game"
    /\ error = "none"
    /\ IF "game_ended" \in attrs
       THEN /\ pc' = "display"
            /\ error' = error
       ELSE /\ pc' = pc
            /\ error' = "TypeError"
    /\ UNCHANGED <<grid_height, grid_width, bombs_nb, attrs, bombs, placed_bombs,
                   random_cell, grid, game_ended>>
    /\ UNCHANGED callvars

\* One MOUSEBUTTONDOWN event of the event loop.
MouseButtonDown ==
    /\ pc = "display"
    /\ error = "none"
    /\ \E x \in MouseXs, y \in MouseYs, button \in Buttons :
          LET r == mouse_button_down([grid |-> grid, game_ended |-> game_ended,
                                      error |-> error], x, y, button)
          IN /\ grid' = r.grid
             /\ game_ended' = r.game_ended
             /\ error' = r.error
    /\ UNCHANGED <<pc, grid_height, grid_width, bombs_nb, attrs, bombs, placed_bombs,
                   random_cell>>
    /\ UNCHANGED callvars

\* The r key once the round has ended: GameGUI.start_game builds a new Grid
\* of the same dimensions.
Restart ==
    /\ pc = "display"
    /\ error = "none"
    /\ game_ended
    /\ GridInit(grid_height, grid_width, bombs_nb)
    /\ UNCHANGED <<grid_height, grid_width, bombs_nb, random_cell, game_ended, error>>
    /\ UNCHANGED callvars

---------------------------------------------------------------------------
(* A left click run step by step: every call of discover_cell is a frame of
   stack, and a frame holds the neighbours its loop still has to discover. *)

Frame(cell) == [cell |-> cell, entered |-> FALSE, undiscovered_neighbours |-> << >>]

Top == stack[Len(stack)]

Pop == SubSeq(stack, 1, Len(stack) - 1)

\* The list of discover_cell taking every neighbour that is not flagged.
undiscovered_neighbours_not_flagged(g, cell_coordinates) ==
    LET neighbours == get_neighbours(cell_coordinates)
        IsNotFlagged(neighbour) == g[neighbour] # FLAGGED
    IN SelectSeq(neighbours, IsNotFlagged)

\* The list undiscovered_neighbours of Grid.discover_cell, built on grid g.
undiscovered_neighbours(g, cell_coordinates) ==
    LET neighbours == get_neighbours(cell_coordinates)
        IsUndiscovered(neighbour) == g[neighbour] = UNDISCOVERED
    IN SelectSeq(neighbours, IsUndiscovered)

\* A left click on a cell while the round is in progress: display calls
\* discover_cell.
LeftClick ==
    /\ pc = "display"
    /\ error = "none"
    /\ ~ game_ended
    /\ \E cell \in Cells :
          /\ stack' = << Frame(cell) >>
          /\ called' = [grid |-> grid, game_ended |-> game_ended, cell |-> cell]
    /\ pc' = "discover_cell"
    /\ UNCHANGED <<grid_height, grid_width, bombs_nb, attrs, bombs, placed_bombs,
                   random_cell, grid, game_ended, error>>

\* A right click on a cell while the round is in progress.
RightClick ==
    /\ pc = "display"
    /\ error = "none"
    /\ ~ game_ended
    /\ \E cell \in Cells : grid' = flag_cell(grid, cell).grid
    /\ UNCHANGED <<pc, grid_height, grid_width, bombs_nb, attrs, bombs, placed_bombs,
                   random_cell, game_ended, error>>
    /\ UNCHANGED callvars

\* The innermost call of discover_cell runs from its first line to the
\* start of its loop, or returns before it.
DiscoverEnter ==
    /\ pc = "discover_cell"
    /\ stack # << >>
    /\ ~ Top.entered
    /\ LET cell_coordinates == Top.cell
       IN IF grid[cell_coordinates] = FLAGGED
          THEN /\ stack' = Pop
               /\ UNCHANGED <<grid, game_ended>>
          ELSE LET current_cell_bombs == check_for_bombs(cell_coordinates)
                   g1 == [grid EXCEPT ![cell_coordinates] = current_cell_bombs]
                   g2 == IF current_cell_bombs = BOMB
                         THEN [discover_all_non_flagged_bombs(g1)
                                  EXCEPT ![cell_coordinates] = LOSING_BOMB]
                         ELSE g1
               IN /\ grid' = g2
                  /\ game_ended' = (game_ended \/ current_cell_bombs = BOMB)
                  /\ IF current_cell_bombs = 0
                     THEN stack' = [stack EXCEPT ![Len(stack)] =
                                      [cell |-> cell_coordinates, entered |-> TRUE,
                                       undiscovered_neighbours |->
                                          undiscovered_neighbours(g2, cell_coordinates)]]
                     ELSE stack' = Pop
    /\ UNCHANGED <<pc, grid_height, grid_width, bombs_nb, attrs, bombs, placed_bombs,
                   random_cell, error, called>>

\* One iteration of the loop of the innermost call: discover_cell is called
\* on the next neighbour of the list.
DiscoverLoop ==
    /\ pc = "discover_cell"
    /\ stack # << >>
    /\ Top.entered
    /\ Top.undiscovered_neighbours # << >>
    /\ stack' = Append([stack EXCEPT ![Len(stack)].undiscovered_neighbours = Tail(@)],
                       Frame(Head(Top.undiscovered_neighbours)))
    /\ UNCHANGED <<pc, grid_height, grid_width, bombs_nb, attrs, bombs, placed_bombs,
                   random_cell, grid, game_ended, error, called>>

\* The loop of the innermost call is over: the call returns.
DiscoverReturn ==
    /\ pc = "discover_cell"
    /\ stack # << >>
    /\ Top.entered
    /\ Top.undiscovered_neighbours = << >>
    /\ stack' = Pop
    /\ UNCHANGED <<pc, grid_height, grid_width, bombs_nb, attrs, bombs, placed_bombs,
                   random_cell, grid, game_ended, error, called>>

\* discover_cell has returned to display, which runs the win check.
WinCheck ==
    /\ pc = "discover_cell"
    /\ stack = << >>
    /\ IF has_discovered_all_non_bombs_cells(grid)
       THEN /\ grid' = flag_non_flagged_bombs(grid)
            /\ game_ended' = TRUE
       ELSE UNCHANGED <<grid, game_ended>>
    /\ called' = NoCall
    /\ pc' = "display"
    /\ UNCHANGED <<grid_height, grid_width, bombs_nb, attrs, bombs, placed_bombs,
                   random_cell, error, stack>>

---------------------------------------------------------------------------

Next ==
    \/ StartGame
    \/ PlaceBombStep
    \/ PlaceBombsDone
    \/ Display
    \/ MouseButtonDown
    \/ Restart

Spec == Init /\ [][Next]_vars

\* random.randrange gives every cell a positive probability, so the loop of
\* place_bombs draws a cell that holds no bomb yet sooner or later, and
\* __init__ goes on once the loop is over.
PlaceFreshBomb == PlaceBombStep /\ placed_bombs' = placed_bombs + 1

FairSpec == Spec /\ WF_vars(PlaceFreshBomb) /\ WF_vars(PlaceBombsDone)

\* The program with the left click run step by step.
CascadeNext ==
    \/ StartGame
    \/ PlaceBombStep
    \/ PlaceBombsDone
    \/ Display
    \/ LeftClick
    \/ RightClick
    \/ DiscoverEnter
    \/ DiscoverLoop
    \/ DiscoverReturn
    \/ WinCheck
    \/ Restart

\* A call that has started runs on: Python executes discover_cell and the
\* win check after it without waiting for anything.
RunningCall == DiscoverEnter \/ DiscoverLoop \/ DiscoverReturn \/ WinCheck

CascadeSpec == Init /\ [][CascadeNext]_vars /\ WF_vars(RunningCall)

---------------------------------------------------------------------------
(* Vocabulary of the properties *)

\* The Grid as the event loop sees it.
cur == [grid |-> grid, game_ended |-> game_ended, error |-> error]

\* A Grid has been constructed and the event loop is running.
Playing == pc = "display" /\ error = "none"

InProgress == Playing /\ ~ game_ended

\* How the round is reported.
outcome == IF Playing THEN draw_menu_bar(cur) ELSE "InProgress"

\* reveal(cell) and toggle_flag(cell): a left or right click on a pixel of
\* the cell.
reveal(st, cell) ==
    mouse_button_down(st, GRID_X + CELL_SIZE * cell[2], GRID_Y + CELL_SIZE * cell[1],
                      LEFT_BUTTON)

toggle_flag(st, cell) ==
    mouse_button_down(st, GRID_X + CELL_SIZE * cell[2], GRID_Y + CELL_SIZE * cell[1],
                      RIGHT_BUTTON)

CellsIn(g, codes) == {c \in DOMAIN g : g[c] \in codes}

IsRevealedNumber(v) == 0 <= v /\ v <= 8

\* Chebyshev distance 1.
Adjacent(c, d) ==
    LET dr == IF c[1] >= d[1] THEN c[1] - d[1] ELSE d[1] - c[1]
        dc == IF c[2] >= d[2] THEN c[2] - d[2] ELSE d[2] - c[2]
    IN c # d /\ dr <= 1 /\ dc <= 1

---------------------------------------------------------------------------
(* C1 *)

\* The cell states a losing reveal of bomb c leaves: c alone is the losing
\* bomb, the other bombs show as 9 unless they were flagged.
LosingCellStates(before, after, c) ==
    /\ CellsIn(after, {LOSING_BOMB}) = {c}
    /\ \A d \in bombs \ {c} :
          /\ before[d] # FLAGGED => after[d] = BOMB
          /\ before[d] = FLAGGED => after[d] = FLAGGED

\* C1: revealing a bomb that is not flagged ends the round as Lost, with that
\* cell the only losing bomb, every other unflagged bomb shown and every
\* flagged bomb still flagged; and whenever the round is reported Lost exactly
\* one cell is the losing bomb.
C1_RevealMineLoses ==
    /\ InProgress =>
          \A c \in bombs :
             grid[c] # FLAGGED =>
                LET r == reveal(cur, c)
                IN /\ draw_menu_bar(r) = "Lost"
                   /\ LosingCellStates(grid, r.grid, c)
    /\ outcome = "Lost" => Cardinality(CellsIn(grid, {LOSING_BOMB})) = 1

\* The part of C1 about cell states alone.
C1_CellStatesOnly ==
    /\ InProgress =>
          \A c \in bombs :
             grid[c] # FLAGGED =>
                LET r == reveal(cur, c)
                IN r.game_ended /\ LosingCellStates(grid, r.grid, c)
    /\ outcome = "Lost" => Cardinality(CellsIn(grid, {LOSING_BOMB})) = 1

---------------------------------------------------------------------------
(* C3 *)

\* C3: whenever the round is reported Won, every cell that is no bomb is
\* discovered with its number and no cell is the losing bomb.
C3_WonMeansCleared ==
    outcome = "Won" =>
        /\ \A c \in Cells \ bombs : IsRevealedNumber(grid[c])
        /\ CellsIn(grid, {LOSING_BOMB}) = {}

---------------------------------------------------------------------------
(* C5 *)

\* C5: once the round has ended, no click changes any cell or the outcome,
\* and none raises an error.
C5_TerminalNoOp ==
    (Playing /\ game_ended) =>
        \A x \in MouseXs, y \in MouseYs, button \in Buttons :
            mouse_button_down(cur, x, y, button) = cur

\* A lost round that still has an undiscovered cell and a flagged one.
C5_Witness ==
    /\ Playing /\ game_ended
    /\ outcome = "Lost"
    /\ CellsIn(grid, {UNDISCOVERED}) # {}
    /\ CellsIn(grid, {FLAGGED}) # {}

---------------------------------------------------------------------------
(* C8 *)

\* C8: revealing a flagged cell changes no cell and not the outcome.
C8_RevealFlaggedNoOp ==
    InProgress =>
        \A c \in Cells : grid[c] = FLAGGED => reveal(cur, c) = cur

\* The same for Grid.discover_cell alone, without the win check of the click.
C8_DiscoverCellOnly ==
    Playing =>
        \A c \in Cells :
            grid[c] = FLAGGED =>
                LET d == discover_cell([grid |-> grid, game_ended |-> game_ended,
                                        calls |-> 0], c)
                IN d.grid = grid /\ d.game_ended = game_ended

---------------------------------------------------------------------------
(* C2 *)

\* C2 as stated: a reveal on a board in progress that leaves as many cells
\* undiscovered or flagged as there are bombs makes the round Won with every
\* bomb flagged.
C2_WinOnAnyReveal ==
    InProgress =>
        \A c \in Cells :
            LET r == reveal(cur, c)
            IN Cardinality(CellsIn(r.grid, {UNDISCOVERED, FLAGGED})) = bombs_nb =>
                  /\ draw_menu_bar(r) = "Won"
                  /\ \A d \in bombs : r.grid[d] = FLAGGED

\* C2 amended: the same for a reveal that does not set off a bomb.
C2_WinOnSafeReveal ==
    InProgress =>
        \A c \in Cells :
            LET r == reveal(cur, c)
            IN (/\ CellsIn(r.grid, {LOSING_BOMB}) = {}
                /\ Cardinality(CellsIn(r.grid, {UNDISCOVERED, FLAGGED})) = bombs_nb) =>
                  /\ draw_menu_bar(r) = "Won"
                  /\ \A d \in bombs : r.grid[d] = FLAGGED

\* A board in progress on which revealing an undiscovered cell wins the round
\* and flags a bomb that was still undiscovered.
C2_Witness ==
    /\ InProgress
    /\ \E c \in Cells :
          LET r == reveal(cur, c)
          IN /\ grid[c] = UNDISCOVERED
             /\ CellsIn(r.grid, {LOSING_BOMB}) = {}
             /\ Cardinality(CellsIn(r.grid, {UNDISCOVERED, FLAGGED})) = bombs_nb
             /\ \E d \in bombs : grid[d] = UNDISCOVERED /\ r.grid[d] = FLAGGED

---------------------------------------------------------------------------
(* C4 *)

\* C4: while the same Grid is played, an outcome of Won or Lost never changes.
C4_OutcomeMonotonic ==
    [][(Playing /\ pc' = "display" /\ outcome # "InProgress") => outcome' = outcome]_vars

\* A round won without a losing bomb, with bombs on the board and a
\* discovered cell.
C4_Witness ==
    /\ outcome = "Won"
    /\ bombs_nb > 0
    /\ CellsIn(grid, {LOSING_BOMB}) = {}
    /\ \E c \in Cells \ bombs : IsRevealedNumber(grid[c])

---------------------------------------------------------------------------
(* C6 *)

\* Grid.__init__ has just returned a playable Grid.
Constructed == pc = "start_game" /\ "game_ended" \in attrs

\* C6: for bombs_nb <= grid_height * grid_width the construction ends, and
\* the Grid it returns has exactly bombs_nb distinct bombs inside the grid,
\* every cell undiscovered and the round in progress.
C6_Construction ==
    /\ [](Constructed =>
            /\ Cardinality(bombs) = bombs_nb
            /\ bombs \subseteq Cells
            /\ DOMAIN grid = Cells
            /\ \A c \in Cells : grid[c] = UNDISCOVERED
            /\ ~ game_ended
            /\ draw_menu_bar(cur) = "InProgress")
    /\ (pc = "place_bombs" ~> Constructed)

\* A Grid constructed with as many bombs as the bounds allow, on a grid with
\* more cells than bombs.
C6_Witness ==
    /\ Constructed
    /\ bombs_nb = MaxBombs
    /\ Cardinality(bombs) = MaxBombs
    /\ Cardinality(Cells) > bombs_nb

---------------------------------------------------------------------------
(* C7 *)

\* C7: a construction with more bombs than cells ends with the error
\* InvalidConfiguration.
C7_InvalidConfigurationRaised ==
    (pc = "start_game" /\ bombs_nb > grid_height * grid_width) =>
        error = "InvalidConfiguration"

\* What the construction leaves instead: an object holding an empty grid and
\* nothing else, and no error.
C7_SilentEmptyGrid ==
    (pc = "start_game" /\ bombs_nb > grid_height * grid_width) =>
        /\ attrs = {"grid"}
        /\ grid = << >>
        /\ bombs = {}
        /\ error \in {"none", "TypeError"}

---------------------------------------------------------------------------
(* C9 *)

\* C9: revealing a cell twice in a row leaves the same cells and outcome as
\* revealing it once, for the click and for Grid.discover_cell alone.
C9_RevealIdempotent ==
    Playing =>
        \A c \in Cells :
            /\ LET once == reveal(cur, c)
               IN reveal(once, c) = once
            /\ LET once == discover_cell([grid |-> grid, game_ended |-> game_ended,
                                          calls |-> 0], c)
                   twice == discover_cell([once EXCEPT !.calls = 0], c)
               IN twice.grid = once.grid /\ twice.game_ended = once.game_ended

\* A board in progress where a reveal discovers several cells at once and
\* the round goes on.
C9_Witness ==
    /\ InProgress
    /\ \E c \in Cells :
          LET once == reveal(cur, c)
          IN /\ ~ once.game_ended
             /\ Cardinality({d \in Cells : once.grid[d] # grid[d]}) >= 3

---------------------------------------------------------------------------
(* C10 *)

\* C10: right after a reveal, every cell the reveal left discovered with 0
\* (the target and the cells of the cascade) has no undiscovered neighbour.
C10_ZeroCellsHaveNoHiddenNeighbour ==
    InProgress =>
        \A c \in Cells :
            LET r == reveal(cur, c)
            IN \A d \in Cells :
                  (r.grid[d] = 0 /\ (d = c \/ grid[d] # 0)) =>
                      \A e \in Cells : Adjacent(d, e) => r.grid[e] # UNDISCOVERED

\* A board in progress where a reveal discovers two cells with 0, next to a
\* flagged cell that stays flagged, and does not end the round.
C10_Witness ==
    /\ InProgress
    /\ \E c \in Cells :
          LET r == reveal(cur, c)
          IN /\ ~ r.game_ended
             /\ Cardinality({d \in Cells : r.grid[d] = 0 /\ grid[d] # 0}) >= 2
             /\ \E d, e \in Cells :
                   /\ r.grid[d] = 0 /\ grid[d] # 0
                   /\ Adjacent(d, e) /\ r.grid[e] = FLAGGED

---------------------------------------------------------------------------
(* C11 *)

\* C11: toggle_flag flags an undiscovered cell and unflags a flagged one,
\* returning true; on any other cell it returns false and changes nothing.
\* No other cell and not the outcome changes, and two toggles of an
\* undiscovered cell give back the board as it was.
C11_ToggleFlag ==
    Playing =>
        \A c \in Cells :
            LET f == flag_cell(grid, c)
                t == toggle_flag(cur, c)
            IN /\ grid[c] = UNDISCOVERED => (f.grid[c] = FLAGGED /\ f.result)
               /\ grid[c] = FLAGGED => (f.grid[c] = UNDISCOVERED /\ f.result)
               /\ grid[c] \notin {UNDISCOVERED, FLAGGED} => (f.grid = grid /\ ~ f.result)
               /\ \A d \in Cells \ {c} : f.grid[d] = grid[d]
               /\ draw_menu_bar([cur EXCEPT !.grid = f.grid]) = draw_menu_bar(cur)
               /\ ~ game_ended => (t.grid = f.grid /\ t.game_ended = game_ended
                                   /\ t.error = "none")
               /\ draw_menu_bar(t) = draw_menu_bar(cur)
               /\ grid[c] = UNDISCOVERED =>
                     /\ flag_cell(f.grid, c).grid = grid
                     /\ flag_cell(f.grid, c).result
                     /\ toggle_flag(t, c) = cur

\* A board in progress with a flagged cell next to a discovered one and an
\* undiscovered cell left.
C11_Witness ==
    /\ InProgress
    /\ \E c, d \in Cells :
          /\ grid[c] = FLAGGED /\ IsRevealedNumber(grid[d]) /\ Adjacent(c, d)
    /\ CellsIn(grid, {UNDISCOVERED}) # {}

---------------------------------------------------------------------------
(* C12 *)

\* C12: the number of bombs left to flag is max(0, bombs_nb - flagged
\* cells); it is never negative, however many cells are flagged.
C12_RemainingClamped ==
    Playing =>
        LET flagged == Cardinality(CellsIn(grid, {FLAGGED}))
            remaining == get_remaining_non_flagged_bombs_nb(grid)
        IN /\ remaining >= 0
           /\ flagged <= bombs_nb => remaining = bombs_nb - flagged
           /\ flagged > bombs_nb => remaining = 0

\* More cells are flagged than there are bombs.
C12_Witness ==
    /\ Playing
    /\ bombs_nb > 0
    /\ Cardinality(CellsIn(grid, {FLAGGED})) > bombs_nb

---------------------------------------------------------------------------
(* C13 *)

\* C13: on a board without bombs and without flags, the first reveal of any
\* cell discovers every cell with 0 and wins the round at once.
C13_NoBombsFirstRevealWins ==
    (InProgress /\ bombs_nb = 0 /\ \A d \in Cells : grid[d] = UNDISCOVERED) =>
        \A c \in Cells :
            LET r == reveal(cur, c)
            IN /\ \A d \in Cells : r.grid[d] = 0
               /\ draw_menu_bar(r) = "Won"

\* A fresh board of at least four cells without bombs, and the board a first
\* reveal of one of its corners leaves.
C13_Witness ==
    /\ InProgress /\ bombs_nb = 0
    /\ Cardinality(Cells) >= 4
    /\ \A d \in Cells : grid[d] = UNDISCOVERED
    /\ reveal(cur, <<0, 0>>).game_ended

---------------------------------------------------------------------------
(* C14 *)

\* C14 as stated: a losing reveal leaves every cell that is no bomb as it
\* was, flagged ones included.
C14_LossKeepsNonBombCells ==
    InProgress =>
        \A c \in bombs :
            grid[c] # FLAGGED =>
                \A d \in Cells \ bombs : reveal(cur, c).grid[d] = grid[d]

\* C14 amended: a losing reveal leaves every cell that is no bomb and was not
\* flagged as it was, and turns every flagged cell that is no bomb into -3
\* (flagged but no bomb).
C14_LossMarksWrongFlags ==
    InProgress =>
        \A c \in bombs :
            grid[c] # FLAGGED =>
                LET r == reveal(cur, c)
                IN \A d \in Cells \ bombs :
                      /\ grid[d] # FLAGGED => r.grid[d] = grid[d]
                      /\ grid[d] = FLAGGED => r.grid[d] = FLAGGED_NO_BOMB

\* A board in progress with a flag on a cell that is no bomb, a discovered
\* cell and a bomb that can be revealed.
C14_Witness ==
    /\ InProgress
    /\ \E c \in bombs, d, e \in Cells \ bombs :
          /\ grid[c] = UNDISCOVERED
          /\ grid[d] = FLAGGED
          /\ IsRevealedNumber(grid[e])
          /\ reveal(cur, c).grid[d] = FLAGGED_NO_BOMB

---------------------------------------------------------------------------
(* C17 *)

\* C17: a reveal that sets off no bomb changes only cells that were
\* undiscovered: flagged cells stay flagged and discovered cells keep their
\* number.
C17_SafeRevealTouchesHiddenOnly ==
    InProgress =>
        \A c \in Cells :
            LET r == reveal(cur, c)
            IN CellsIn(r.grid, {LOSING_BOMB}) = {} =>
                  \A d \in Cells : grid[d] # UNDISCOVERED => r.grid[d] = grid[d]

\* A board in progress where a reveal cascades past a flagged neighbour of a
\* cell it discovers with 0, and a discovered cell is already there.
C17_Witness ==
    /\ InProgress
    /\ \E c, d, e, f \in Cells :
          LET r == reveal(cur, c)
          IN /\ grid[c] = UNDISCOVERED /\ r.grid[c] = 0
             /\ Adjacent(c, d) /\ grid[d] = FLAGGED /\ r.grid[d] = FLAGGED
             /\ IsRevealedNumber(grid[e])
             /\ f # c /\ grid[f] = UNDISCOVERED /\ IsRevealedNumber(r.grid[f])

---------------------------------------------------------------------------
(* C18 *)

\* C18: every cell discovered with a number is no bomb, and the number, in
\* 0..8, is that of the bombs among the cells at Chebyshev distance 1.
C18_NumbersCountAdjacentBombs ==
    Playing =>
        \A c \in Cells :
            IsRevealedNumber(grid[c]) =>
                /\ c \notin bombs
                /\ grid[c] = Cardinality({d \in bombs : Adjacent(c, d)})

\* A cell discovered with 2: one bomb beside it and one diagonal to it.
C18_Witness ==
    /\ Playing
    /\ \E c \in Cells, d, e \in bombs :
          /\ grid[c] = 2
          /\ d[1] = c[1] /\ Adjacent(c, d)
          /\ e[1] # c[1] /\ e[2] # c[2] /\ Adjacent(c, e)

---------------------------------------------------------------------------
(* C19 *)

\* C19: while the round is in progress every bomb is undiscovered or
\* flagged, and a reveal shows a bomb or loses the round only when its own
\* cell is a bomb: the cascade never discovers one.
C19_OnlyDirectRevealLoses ==
    InProgress =>
        /\ \A d \in bombs : grid[d] \in {UNDISCOVERED, FLAGGED}
        /\ \A c \in Cells \ bombs :
              LET r == reveal(cur, c)
              IN /\ \A d \in bombs : r.grid[d] \in {UNDISCOVERED, FLAGGED}
                 /\ draw_menu_bar(r) # "Lost"
        /\ \A c \in bombs :
              LET r == reveal(cur, c)
              IN draw_menu_bar(r) = "Lost" => r.grid[c] = LOSING_BOMB

\* A board in progress where a reveal cascades over several cells up to the
\* numbered cells next to a bomb, and the round goes on.
C19_Witness ==
    /\ InProgress
    /\ bombs # {}
    /\ \E c \in Cells \ bombs :
          LET r == reveal(cur, c)
          IN /\ ~ r.game_ended
             /\ r.grid[c] = 0
             /\ \E d \in Cells, b \in bombs :
                   grid[d] = UNDISCOVERED /\ r.grid[d] > 0 /\ Adjacent(d, b)

---------------------------------------------------------------------------
(* C20 *)

\* The round has ended and no bomb was set off: it was won by a reveal.
WonByReveal == Playing /\ game_ended /\ CellsIn(grid, {LOSING_BOMB}) = {}

\* C20: when the round was won by a reveal that set off no bomb, the flagged
\* cells are exactly the bombs and no bomb is left to flag.
C20_WonFlagsAreBombs ==
    WonByReveal =>
        /\ CellsIn(grid, {FLAGGED}) = bombs
        /\ CellsIn(grid, {FLAGGED_NO_BOMB}) = {}
        /\ get_remaining_non_flagged_bombs_nb(grid) = 0

\* A round won with two bombs on the board.
C20_Witness ==
    /\ WonByReveal
    /\ Cardinality(bombs) = 2
    /\ Cardinality(Cells) > 3

---------------------------------------------------------------------------
(* The left click run step by step against discover_cell as a whole *)

\* discover_cell on the board the running left click started from.
CalledResult ==
    discover_cell([grid |-> called.grid, game_ended |-> called.game_ended, calls |-> 0],
                  called.cell)

\* When the outermost call has returned, the board is the one discover_cell
\* gives as a whole.
CascadeMatchesDiscoverCell ==
    (pc = "discover_cell" /\ stack = << >>) =>
        /\ grid = CalledResult.grid
        /\ game_ended = CalledResult.game_ended

---------------------------------------------------------------------------
(* C15 *)

\* C15: during one reveal, discover_cell is never run on a cell that is
\* already discovered, so that it runs at most once per cell and at most
\* grid_height * grid_width times in all.
C15_EachCellVisitedOnce ==
    /\ (pc = "discover_cell" /\ Len(stack) > 1 /\ ~ Top.entered) =>
          ~ IsRevealedNumber(grid[Top.cell])
    /\ (pc = "discover_cell" /\ stack = << >>) =>
          CalledResult.calls <= Cardinality(Cells)

---------------------------------------------------------------------------
(* C16 *)

\* What is left to do of a frame: three per neighbour still to discover,
\* two for a call that has not started, one for a call in its loop.
FrameWork(frame) ==
    3 * Len(frame.undiscovered_neighbours) + (IF frame.entered THEN 1 ELSE 2)

RECURSIVE StackWork(_)
StackWork(frames) ==
    IF frames = << >> THEN 0 ELSE FrameWork(Head(frames)) + StackWork(Tail(frames))

\* A call on an undiscovered cell can add a frame with eight neighbours.
CellWork == 3 * 8 + 1

\* What is left to do of the running left click: the cells still
\* undiscovered, the click's own cell while its call has not started, the
\* frames of the stack, and the win check.
Variant ==
    IF pc # "discover_cell"
    THEN 0
    ELSE 1 + CellWork * Cardinality(CellsIn(grid, {UNDISCOVERED}))
           + (IF stack # << >> /\ ~ stack[1].entered THEN CellWork ELSE 0)
           + StackWork(stack)

\* C16: every reveal ends. While a left click runs, a next step is always
\* there, the calls of discover_cell never nest deeper than the grid has
\* cells, and every step lowers what is left to do, which is never negative:
\* after finitely many steps no call and no neighbour is pending and the
\* click is back in the event loop.
C16_RevealTerminates ==
    /\ [](pc = "discover_cell" =>
            /\ ENABLED RunningCall
            /\ Len(stack) <= Cardinality(Cells)
            /\ Variant > 0)
    /\ [][pc = "discover_cell" => (Variant' < Variant /\ Variant' >= 0)]_vars

\* The same as a property of the runs: under CascadeSpec a left click that
\* has started always comes back to the event loop.
C16_LeftClickReturns ==
    pc = "discover_cell" ~> (pc = "display" /\ stack = << >>)

\* A cascade three calls deep, next to a flagged cell, with neighbours still
\* to discover in the outermost call.
C16_Witness ==
    /\ pc = "discover_cell"
    /\ Len(stack) >= 3
    /\ stack[1].undiscovered_neighbours # << >>
    /\ CellsIn(grid, {FLAGGED}) # {}

---------------------------------------------------------------------------
(* C21 *)

\* C21: while a round is in progress, every mouse position the area test of
\* the handler accepts gives a row in 0 .. grid_height - 1 and a column in
\* 0 .. grid_width - 1, so that no click ends the program with IndexError.
C21_ClickedCellInBounds ==
    /\ error # "IndexError"
    /\ InProgress =>
          \A x \in MouseXs, y \in MouseYs :
             in_grid_area(x, y) =>
                /\ 0 <= cell_y(y) /\ cell_y(y) < grid_height
                /\ 0 <= cell_x(x) /\ cell_x(x) < grid_width

\* What holds instead: the row and the column are never negative and exceed
\* the grid by one at most, on the last row and column of pixels the area
\* test accepts and nowhere else; a click there on either button raises
\* IndexError and leaves the grid as it was.
C21_OffByOneOnly ==
    InProgress =>
       \A x \in MouseXs, y \in MouseYs :
          in_grid_area(x, y) =>
             /\ 0 <= cell_y(y) /\ cell_y(y) <= grid_height
             /\ 0 <= cell_x(x) /\ cell_x(x) <= grid_width
             /\ (<<cell_y(y), cell_x(x)>> \notin Cells) <=>
                   (x = GRID_X + CELL_SIZE * grid_width
                      \/ y = GRID_Y + CELL_SIZE * grid_height)
             /\ \A button \in Buttons :
                   LET r == mouse_button_down(cur, x, y, button)
                   IN IF <<cell_y(y), cell_x(x)>> \in Cells
                      THEN r.error = "none"
                      ELSE r = [cur EXCEPT !.error = "IndexError"]

\* The program has ended with IndexError after a click.
C21_IndexErrorReached ==
    /\ pc = "display"
    /\ error = "IndexError"
    /\ ~ game_ended

=============================================================================
